---- MODULE Spec2Model ----
(***************************************************************************)
(* Model of the dial scheduler of p2p/dial.go: the loop goroutine, the     *)
(* candidate producer goroutine, the dial-task goroutines, the candidate   *)
(* pool (dialQueue, a container/heap binary heap) and the dial history.    *)
(***************************************************************************)
EXTENDS Integers, Sequences, FiniteSets, TLC

\* ------------------------------------------------------------------ bounds

\* Nodes the discovery iterator can still yield before it is exhausted.
MaxEmit == 2
\* Dial tasks launched in one run of the model.
MaxTasks == 3
\* Largest reading of time.Now() taken by dialQueue.add.
MaxClock == 1

\* Entries the pool holds at once in PoolSpec.
MaxPool == 3

\* Calls of resolve on one task in ResolveSpec.
MaxResolveCalls == 8

\* --------------------------------------------------------- program constants

staticPriority == 5
normalPriority == 10

\* Resolve backoff, in seconds.
initialResolveDelay == 60
maxResolveDelay == 3600

\* ------------------------------------------------------------------- nodes

\* Node references (*enode.Node).  Two references can carry the same
\* identifier: the pool is keyed by reference, the scheduler sets by ID.
\*   a1 : identifier A, IP and TCP port known, inside the netrestrict list
\*   a2 : identifier A, IP known, TCP port 0, inside the list
\*   a3 : identifier A, IP and port known, outside the netrestrict list
\*   b0 : identifier B, no IP (a static node configured by ID only)
\*   b1 : identifier B with IP and port, inside the list (as discovery and
\*        the resolver report it)
\*   s  : our own identifier, IP known, TCP port 0
Nodes == {"a1", "a2", "a3", "b0", "b1", "s"}

NoNode == "nil"

SelfID == "S"

\* n.ID()
ID(n) ==
    CASE n \in {"a1", "a2", "a3"} -> "A"
      [] n \in {"b0", "b1"} -> "B"
      [] OTHER -> SelfID

IDs == {ID(n) : n \in Nodes}

\* n.IP() != nil
HasIP(n) == n # "b0"

\* n.TCP()
TCP(n) == IF n \in {"a1", "a3", "b1"} THEN 30303 ELSE 0

\* config.netRestrict.Contains(n.IP()); Contains(nil) is false.
NetlistContains(n) == n \in {"a1", "a2", "b1", "s"}

\* config.resolver.Resolve(n) when the node is found: a record of the same
\* identifier carrying an endpoint.
Resolved(n) ==
    CASE ID(n) = "A" -> "a1"
      [] ID(n) = "B" -> "b1"
      [] OTHER -> n

\* Nodes handed to addStatic / removeStatic by the server.
StaticInputs == {"b0", "b1"}
\* Nodes the discovery iterator yields.
IteratorNodes == {"a1", "b1"}
\* Connections reported by peerAdded / peerRemoved.
ConnFlags == {"staticDialedConn", "dynDialedConn", "inboundConn"}
Conns ==
    {[node |-> "a1", flag |-> "dynDialedConn"],
     [node |-> "b1", flag |-> "staticDialedConn"],
     [node |-> "b1", flag |-> "inboundConn"]}

\* The configurations the scheduler is started with.
Configs ==
    {[maxDialPeers |-> 1, maxActiveDials |-> 2, resolver |-> TRUE, netRestrict |-> FALSE],
     [maxDialPeers |-> 2, maxActiveDials |-> 1, resolver |-> FALSE, netRestrict |-> FALSE],
     [maxDialPeers |-> 1, maxActiveDials |-> 1, resolver |-> TRUE, netRestrict |-> TRUE]}

VARIABLES
    config,      \* dialConfig
    dialing,     \* d.dialing: IDs with an active dial
    peers,       \* d.peers: IDs of connected peers
    static,      \* d.static: IDs of static nodes
    dialPeers,   \* d.dialPeers
    staticPool,  \* d.staticPool: [heap, items]
    history,     \* d.history: IDs dialed recently
    clock,       \* last reading of time.Now() by dialQueue.add
    closeCh,     \* TRUE once close(d.closeCh) ran
    pc,          \* position of the loop goroutine
    res,         \* tasks returned by startStaticDials, not yet started
    drainLeft,   \* iterations left of "for range d.dialing"
    launched,    \* every dial task startDial was called with, in order
    itLeft,      \* nodes the iterator still holds
    itClosed,    \* it.Close() was called
    prodPc,      \* position of the producer goroutine
    conns,       \* connections the server currently holds (peerAdded, not yet peerRemoved)
    inserted,    \* PoolSpec only: the pool's references in the order add inserted them
    popped,      \* PoolSpec only: the entry the last popImpl returned
    tk,          \* TaskSpec, ResolveSpec only: one dialTask followed through startDial
    mclock,      \* TaskSpec, ResolveSpec only: d.config.clock.Now(), in seconds
    call         \* CallerSpec only: a call of addStatic, removeStatic, peerAdded or peerRemoved

vars ==
    <<config, dialing, peers, static, dialPeers, staticPool, history, clock,
      closeCh, pc, res, drainLeft, launched, itLeft, itClosed, prodPc,
      conns, inserted, popped, tk, mclock, call>>

\* --------------------------------------------------------------- dialQueue

Min(a, b) == IF a < b THEN a ELSE b
Max(a, b) == IF a > b THEN a ELSE b

\* dialQueueImpl.Less on two entries.
Less(x, y) ==
    IF x.priority = y.priority
    THEN x.insertTime < y.insertTime
    ELSE x.priority < y.priority

\* dialQueueImpl.Swap (0-based indexes i, j).
Swap(h, i, j) ==
    [k \in 1..Len(h) |->
        IF k = i + 1 THEN h[j + 1] ELSE IF k = j + 1 THEN h[i + 1] ELSE h[k]]

\* container/heap up(h, j), 0-based.
RECURSIVE up(_, _)
up(h, j) ==
    LET i == IF j = 0 THEN 0 ELSE (j - 1) \div 2
    IN  IF i = j \/ ~Less(h[j + 1], h[i + 1])
        THEN h
        ELSE up(Swap(h, i, j), i)

\* container/heap down(h, i, n), 0-based.
RECURSIVE down(_, _, _)
down(h, i, n) ==
    LET j1 == 2 * i + 1
    IN  IF j1 >= n
        THEN h
        ELSE LET j2 == j1 + 1
                 j  == IF j2 < n /\ Less(h[j2 + 1], h[j1 + 1]) THEN j2 ELSE j1
             IN  IF ~Less(h[j + 1], h[i + 1])
                 THEN h
                 ELSE down(Swap(h, i, j), j, n)

\* heap.Push(&d.heap, task)
heapPush(h, x) == up(Append(h, x), Len(h))

\* heap.Pop(&d.heap): [tt, heap]
heapPop(h) ==
    LET n == Len(h) - 1
        g == down(Swap(h, 0, n), 0, n)
    IN  [tt |-> g[n + 1], heap |-> SubSeq(g, 1, n)]

newDialQueue == [heap |-> <<>>, items |-> {}]

\* dialQueue.Len
DialQueueLen(q) == Cardinality(q.items)

\* dialQueue.add with time.Now() = now
add(q, addr, isStatic, priority, now) ==
    IF addr \in q.items
    THEN q
    ELSE [heap |-> heapPush(q.heap, [addr |-> addr, priority |-> priority,
                                    insertTime |-> now, isStatic |-> isStatic]),
          items |-> q.items \cup {addr}]

NoEntry == [addr |-> NoNode, priority |-> 0, insertTime |-> 0, isStatic |-> FALSE]

\* dialQueue.popImpl: [tt, queue]; tt = NoEntry stands for nil.
popImpl(q) ==
    IF Len(q.heap) # 0
    THEN LET p == heapPop(q.heap)
         IN  [tt |-> p.tt,
              queue |-> [heap |-> p.heap, items |-> q.items \ {p.tt.addr}]]
    ELSE [tt |-> NoEntry, queue |-> q]

\* dialScheduler.addToStaticPool
addToStaticPool(q, node, now) == add(q, node, TRUE, staticPriority, now)

\* The references of q in insertion order, given the order before the change.
InsertionOrder(order, q) ==
    LET kept == SelectSeq(order, LAMBDA a : a \in q.items)
        old  == {kept[i] : i \in 1..Len(kept)}
        new  == q.items \ old
    IN  IF new = {} THEN kept ELSE Append(kept, CHOOSE a \in new : TRUE)

\* ------------------------------------------------------------ dial history

\* history.Add(node, expiry)
HistoryAdd(h, id) == h \cup {id}

\* history.ContainsID(id)
HistoryContainsID(h, id) == id \in h

\* ----------------------------------------------------------------- checkDial

\* checkDial with the connected-peer check moved ahead of the dialing check.
checkDialPeersFirst(n, dl, pr, hist) ==
    IF ID(n) = SelfID THEN "errSelf"
    ELSE IF HasIP(n) /\ TCP(n) = 0 THEN "errNoPort"
    ELSE IF ID(n) \in pr THEN "errAlreadyConnected"
    ELSE IF ID(n) \in dl THEN "errAlreadyDialing"
    ELSE IF config.netRestrict /\ ~NetlistContains(n) THEN "errNetRestrict"
    ELSE IF HistoryContainsID(hist, ID(n)) THEN "errRecentlyDialed"
    ELSE "nil"

\* dialScheduler.checkDial(n) against the given dialing, peers and history.
checkDial(n, dl, pr, hist) ==
    IF ID(n) = SelfID THEN "errSelf"
    ELSE IF HasIP(n) /\ TCP(n) = 0 THEN "errNoPort"
    ELSE IF ID(n) \in dl THEN "errAlreadyDialing"
    ELSE IF ID(n) \in pr THEN "errAlreadyConnected"
    ELSE IF config.netRestrict /\ ~NetlistContains(n) THEN "errNetRestrict"
    ELSE IF HistoryContainsID(hist, ID(n)) THEN "errRecentlyDialed"
    ELSE "nil"

\* freeDialSlots without the subtraction of the dials in progress.
freeDialSlotsIgnoringDialing ==
    LET slots == (config.maxDialPeers - dialPeers) * 2
    IN  IF slots > config.maxActiveDials THEN config.maxActiveDials ELSE slots

\* dialScheduler.freeDialSlots
freeDialSlots ==
    LET slots == (config.maxDialPeers - dialPeers) * 2
        capped == IF slots > config.maxActiveDials THEN config.maxActiveDials ELSE slots
    IN  capped - Cardinality(dialing)

\* dialTask.needResolve
needResolve(t) == t.flags = "staticDialedConn" /\ ~HasIP(t.dest)

\* newDialTask(dest, flags)
newDialTask(dest, flags) == [dest |-> dest, flags |-> flags]

\* The loop of startStaticDials never consulting d.peers: neither its own
\* lookup nor the one of checkDial sees the connected peers.
RECURSIVE startStaticDialsLoopIgnoringPeers(_, _, _, _)
startStaticDialsLoopIgnoringPeers(n, q, cnt, acc) ==
    IF ~(cnt < n /\ DialQueueLen(q) > 0)
    THEN [started |-> cnt, res |-> acc, queue |-> q]
    ELSE LET p    == popImpl(q)
             task == p.tt
         IN  IF task.isStatic /\ ID(task.addr) \notin static
             THEN startStaticDialsLoopIgnoringPeers(n, p.queue, cnt, acc)
             ELSE IF checkDial(task.addr, dialing, {}, history) # "nil"
             THEN startStaticDialsLoopIgnoringPeers(n, p.queue, cnt, acc)
             ELSE startStaticDialsLoopIgnoringPeers(n, p.queue, cnt + 1,
                      Append(acc, newDialTask(task.addr,
                          IF task.isStatic THEN "staticDialedConn"
                                           ELSE "dynDialedConn")))

\* The body of the loop of startStaticDials: pops while started < n and the
\* pool is not empty; a popped entry that fails a check is dropped.
RECURSIVE startStaticDialsLoop(_, _, _, _)
startStaticDialsLoop(n, q, cnt, acc) ==
    IF ~(cnt < n /\ DialQueueLen(q) > 0)
    THEN [started |-> cnt, res |-> acc, queue |-> q]
    ELSE LET p    == popImpl(q)
             task == p.tt
         IN  IF task.isStatic /\ ID(task.addr) \notin static
             THEN startStaticDialsLoop(n, p.queue, cnt, acc)
             ELSE IF ID(task.addr) \in peers
             THEN startStaticDialsLoop(n, p.queue, cnt, acc)
             ELSE IF checkDial(task.addr, dialing, peers, history) # "nil"
             THEN startStaticDialsLoop(n, p.queue, cnt, acc)
             ELSE startStaticDialsLoop(n, p.queue, cnt + 1,
                      Append(acc, newDialTask(task.addr,
                          IF task.isStatic THEN "staticDialedConn"
                                           ELSE "dynDialedConn")))

\* dialScheduler.startStaticDials: [res, queue]
startStaticDials == startStaticDialsLoop(freeDialSlots, staticPool, 0, <<>>)

\* dialScheduler.updateStaticPool(node) against the given sets: the pool after it.
updateStaticPool(q, node, dl, pr, hist, now) ==
    IF ID(node) \in static /\ checkDial(node, dl, pr, hist) = "nil"
    THEN addToStaticPool(q, node, now)
    ELSE q

\* ------------------------------------------------------------------- state

\* No task is followed yet.
NoTask ==
    [pc |-> "none", dest |-> NoNode, flags |-> "",
     resolveDelay |-> 0, lastResolved |-> 0,
     calls |-> 0, attempted |-> FALSE,
     dials |-> 0, err |-> "none", reresolves |-> 0, reok |-> FALSE]

\* No call is in progress.
NoCall == [pc |-> "none", op |-> "", arg |-> NoNode, before |-> FALSE, late |-> FALSE]

\* The readings time.Now() can return next: time does not run backwards, and
\* two readings can be equal.
Nows == {clock, Min(clock + 1, MaxClock)}

Init ==
    /\ config \in Configs
    /\ dialing = {}
    /\ peers = {}
    /\ static = {}
    /\ dialPeers = 0
    /\ staticPool = newDialQueue
    /\ history = {}
    /\ clock = 0
    /\ closeCh = FALSE
    /\ pc = "launch"
    /\ res = <<>>
    /\ drainLeft = 0
    /\ launched = <<>>
    /\ itLeft = MaxEmit
    /\ itClosed = FALSE
    /\ prodPc = "next"
    /\ conns = {}
    /\ inserted = <<>>
    /\ popped = NoEntry
    /\ tk = NoTask
    /\ mclock = 0
    /\ call = NoCall

\* The pool becomes q, filled at reading now if it grew.
SetPool(q, now) ==
    /\ staticPool' = q
    /\ clock' = IF q.items \subseteq staticPool.items THEN clock ELSE now

\* --------------------------------------------------------- loop goroutine

\* Top of the loop: _, tasks := d.startStaticDials()
LaunchCycle ==
    /\ pc = "launch"
    /\ LET r == startStaticDials
       IN  /\ Len(launched) + Len(r.res) <= MaxTasks
           /\ staticPool' = r.queue
           /\ res' = r.res
           /\ pc' = IF r.res = <<>> THEN "select" ELSE "start"
    /\ UNCHANGED <<config, dialing, peers, static, dialPeers, history, clock,
                   closeCh, drainLeft, launched, itLeft, itClosed, prodPc, conns,
                   inserted, popped, tk, mclock, call>>

\* d.startDial(task) for the next task of the cycle.  The first resolve of a
\* task runs here, on the loop goroutine; when it fails startDial returns
\* before it starts the task's goroutine.
StartDial ==
    /\ pc = "start"
    /\ res # <<>>
    /\ LET task == Head(res)
           id   == ID(task.dest)
       IN  /\ history' = HistoryAdd(history, id)
           /\ dialing' = dialing \cup {id}
           /\ IF needResolve(task)
              THEN \E found \in (IF config.resolver THEN BOOLEAN ELSE {FALSE}) :
                     launched' = Append(launched,
                        IF found
                        THEN [dest |-> Resolved(task.dest), flags |-> task.flags, pc |-> "dial"]
                        ELSE [dest |-> task.dest, flags |-> task.flags, pc |-> "dropped"])
              ELSE launched' = Append(launched,
                        [dest |-> task.dest, flags |-> task.flags, pc |-> "dial"])
    /\ res' = Tail(res)
    /\ pc' = IF Tail(res) = <<>> THEN "select" ELSE "start"
    /\ UNCHANGED <<config, peers, static, dialPeers, staticPool, clock, closeCh,
                   drainLeft, itLeft, itClosed, prodPc, conns, inserted, popped, tk, mclock, call>>

DeliveredTask == [dest |-> NoNode, flags |-> "", pc |-> "delivered"]

\* case task := <-d.doneCh, the rendezvous with the goroutine of task tid.
LoopDone(tid) ==
    /\ pc = "select"
    /\ tid \in 1..Len(launched)
    /\ launched[tid].pc = "send"
    /\ LET node == launched[tid].dest
           id   == ID(node)
           dl   == dialing \ {id}
       IN  /\ dialing' = dl
           /\ \E now \in Nows :
                SetPool(updateStaticPool(staticPool, node, dl, peers, history, now), now)
    /\ launched' = [launched EXCEPT ![tid] = DeliveredTask]
    /\ pc' = "launch"
    /\ UNCHANGED <<config, peers, static, dialPeers, history, closeCh, res,
                   drainLeft, itLeft, itClosed, prodPc, conns, inserted, popped, tk, mclock, call>>

\* case c := <-d.addPeerCh
RecvAddPeer(c) ==
    /\ pc = "select"
    /\ \A x \in conns : ID(x.node) # ID(c.node)
    /\ conns' = conns \cup {c}
    /\ dialPeers' = IF c.flag \in {"dynDialedConn", "staticDialedConn"}
                    THEN dialPeers + 1 ELSE dialPeers
    /\ peers' = peers \cup {ID(c.node)}
    /\ pc' = "launch"
    /\ UNCHANGED <<config, dialing, static, staticPool, history, clock, closeCh, res,
                   drainLeft, launched, itLeft, itClosed, prodPc, inserted, popped, tk, mclock>>

\* case c := <-d.addPeerCh counting every connection, inbound ones included.
LoopAddPeerCountsInbound(c) ==
    /\ pc = "select"
    /\ \A x \in conns : ID(x.node) # ID(c.node)
    /\ conns' = conns \cup {c}
    /\ dialPeers' = dialPeers + 1
    /\ peers' = peers \cup {ID(c.node)}
    /\ pc' = "launch"
    /\ UNCHANGED <<config, dialing, static, staticPool, history, clock, closeCh, res,
                   drainLeft, launched, itLeft, itClosed, prodPc, inserted, popped, tk, mclock, call>>

\* case c := <-d.addPeerCh, sent by a caller this model does not follow.
LoopAddPeer(c) == RecvAddPeer(c) /\ UNCHANGED call

\* case c := <-d.remPeerCh
RecvRemPeer(c) ==
    /\ pc = "select"
    /\ c \in conns
    /\ conns' = conns \ {c}
    /\ dialPeers' = IF c.flag \in {"dynDialedConn", "staticDialedConn"}
                    THEN dialPeers - 1 ELSE dialPeers
    /\ LET pr == peers \ {ID(c.node)}
       IN  /\ peers' = pr
           /\ \E now \in Nows :
                SetPool(updateStaticPool(staticPool, c.node, dialing, pr, history, now), now)
    /\ pc' = "launch"
    /\ UNCHANGED <<config, dialing, static, history, closeCh, res, drainLeft,
                   launched, itLeft, itClosed, prodPc, inserted, popped, tk, mclock>>

\* case c := <-d.remPeerCh, sent by a caller this model does not follow.
LoopRemPeer(c) == RecvRemPeer(c) /\ UNCHANGED call

\* case node := <-d.addStaticCh
RecvAddStatic(node) ==
    /\ pc = "select"
    /\ IF ID(node) \in static
       THEN UNCHANGED <<static, staticPool, clock>>
       ELSE /\ static' = static \cup {ID(node)}
            /\ \E now \in Nows :
                 SetPool(IF checkDial(node, dialing, peers, history) = "nil"
                         THEN addToStaticPool(staticPool, node, now)
                         ELSE staticPool, now)
    /\ pc' = "launch"
    /\ UNCHANGED <<config, dialing, peers, dialPeers, history, closeCh, res,
                   drainLeft, launched, itLeft, itClosed, prodPc, conns, inserted, popped, tk, mclock>>

\* case node := <-d.addStaticCh without the "if exists { continue loop }".
LoopAddStaticNoExistsCheck(node) ==
    /\ pc = "select"
    /\ static' = static \cup {ID(node)}
    /\ \E now \in Nows :
         SetPool(IF checkDial(node, dialing, peers, history) = "nil"
                 THEN addToStaticPool(staticPool, node, now)
                 ELSE staticPool, now)
    /\ pc' = "launch"
    /\ UNCHANGED <<config, dialing, peers, dialPeers, history, closeCh, res,
                   drainLeft, launched, itLeft, itClosed, prodPc, conns, inserted, popped, tk, mclock, call>>

\* case node := <-d.addStaticCh, sent by a caller this model does not follow.
LoopAddStatic(node) == RecvAddStatic(node) /\ UNCHANGED call

\* case node := <-d.remStaticCh
RecvRemStatic(node) ==
    /\ pc = "select"
    /\ static' = static \ {ID(node)}
    /\ pc' = "launch"
    /\ UNCHANGED <<config, dialing, peers, dialPeers, staticPool, history, clock,
                   closeCh, res, drainLeft, launched, itLeft, itClosed,
                   prodPc, conns, inserted, popped, tk, mclock>>

\* case node := <-d.remStaticCh, sent by a caller this model does not follow.
LoopRemStatic(node) == RecvRemStatic(node) /\ UNCHANGED call

\* case <-d.closeCh: it.Close(); break loop
LoopClose ==
    /\ pc = "select"
    /\ closeCh
    /\ itClosed' = TRUE
    /\ drainLeft' = Cardinality(dialing)
    /\ pc' = "drain"
    /\ UNCHANGED <<config, dialing, peers, static, dialPeers, staticPool, history,
                   clock, closeCh, res, launched, itLeft, prodPc, conns,
                   inserted, popped, tk, mclock, call>>

\* for range d.dialing { <-d.doneCh }: one receive.
DrainRecv(tid) ==
    /\ pc = "drain"
    /\ drainLeft > 0
    /\ tid \in 1..Len(launched)
    /\ launched[tid].pc = "send"
    /\ launched' = [launched EXCEPT ![tid] = DeliveredTask]
    /\ drainLeft' = drainLeft - 1
    /\ UNCHANGED <<config, dialing, peers, static, dialPeers, staticPool, history,
                   clock, closeCh, pc, res, itLeft, itClosed, prodPc, conns,
                   inserted, popped, tk, mclock, call>>

\* The drain loop ends and loop returns.
LoopReturn ==
    /\ pc = "drain"
    /\ drainLeft = 0
    /\ pc' = "returned"
    /\ UNCHANGED <<config, dialing, peers, static, dialPeers, staticPool, history,
                   clock, closeCh, res, drainLeft, launched, itLeft,
                   itClosed, prodPc, conns, inserted, popped, tk, mclock, call>>

\* ----------------------------------------------------- producer goroutine

\* it.Next() returned true: node := it.Node(); d.staticPool.add(node, false, normalPriority)
ProducerNext(node) ==
    /\ prodPc = "next"
    /\ ~itClosed
    /\ itLeft > 0
    /\ itLeft' = itLeft - 1
    /\ IF node = NoNode
       THEN /\ prodPc' = "returned"
            /\ UNCHANGED <<staticPool, clock>>
       ELSE /\ prodPc' = "notify"
            /\ \E now \in Nows :
                 SetPool(add(staticPool, node, FALSE, normalPriority, now), now)
    /\ UNCHANGED <<config, dialing, peers, static, dialPeers, history, closeCh, pc,
                   res, drainLeft, launched, itClosed, conns, inserted, popped, tk, mclock, call>>

\* select { case notify <- struct{}{}: } taken with the loop waiting in its
\* select: case <-notify of the loop.
LoopNotify ==
    /\ prodPc = "notify"
    /\ pc = "select"
    /\ prodPc' = "next"
    /\ pc' = "launch"
    /\ UNCHANGED <<config, dialing, peers, static, dialPeers, staticPool, history,
                   clock, closeCh, res, drainLeft, launched, itLeft,
                   itClosed, conns, inserted, popped, tk, mclock, call>>

\* select { default: }: the loop is not receiving, the notification is dropped.
ProducerNotifyDefault ==
    /\ prodPc = "notify"
    /\ pc # "select"
    /\ prodPc' = "next"
    /\ UNCHANGED <<config, dialing, peers, static, dialPeers, staticPool, history,
                   clock, closeCh, pc, res, drainLeft, launched, itLeft,
                   itClosed, conns, inserted, popped, tk, mclock, call>>

\* ---------------------------------------------------- dial-task goroutines

TaskVarsUnchanged ==
    UNCHANGED <<config, dialing, peers, static, dialPeers, staticPool, history,
                clock, closeCh, pc, res, drainLeft, itLeft, itClosed,
                prodPc, conns, inserted, popped, tk, mclock, call>>

\* The goroutine of a task runs dial(): err := d.dial(task) ends with nil, an
\* error of setupFunc or a dialError; on a dialError of a static task
\* d.resolve(task) runs and, if it found the node, d.dial(task) runs again.
\* The goroutine then waits to send the task on doneCh.
TaskDial(tid) ==
    /\ tid \in 1..Len(launched)
    /\ launched[tid].pc = "dial"
    /\ \E err \in {"nil", "dialError", "setupError"} :
       \E found \in (IF config.resolver THEN BOOLEAN ELSE {FALSE}) :
         launched' = [launched EXCEPT ![tid] =
             IF err = "dialError" /\ @.flags = "staticDialedConn" /\ found
             THEN [dest |-> Resolved(@.dest), flags |-> @.flags, pc |-> "send"]
             ELSE [dest |-> @.dest, flags |-> @.flags, pc |-> "send"]]
    /\ TaskVarsUnchanged

\* ------------------------------------------------------------ environment

\* dialScheduler.stop
Stop ==
    /\ ~closeCh
    /\ closeCh' = TRUE
    /\ UNCHANGED <<config, dialing, peers, static, dialPeers, staticPool, history,
                   clock, pc, res, drainLeft, launched, itLeft, itClosed,
                   prodPc, conns, inserted, popped, tk, mclock, call>>

\* The periodic dispatcher removes an entry of the history whose expiry elapsed.
Expire(id) ==
    /\ id \in history
    /\ history' = history \ {id}
    /\ UNCHANGED <<config, dialing, peers, static, dialPeers, staticPool, clock,
                   closeCh, pc, res, drainLeft, launched, itLeft, itClosed,
                   prodPc, conns, inserted, popped, tk, mclock, call>>

Next ==
    \/ LaunchCycle
    \/ StartDial
    \/ \E tid \in 1..MaxTasks : LoopDone(tid)
    \/ \E c \in Conns : LoopAddPeer(c)
    \/ \E c \in Conns : LoopRemPeer(c)
    \/ \E n \in StaticInputs : LoopAddStatic(n)
    \/ \E n \in StaticInputs : LoopRemStatic(n)
    \/ LoopClose
    \/ \E tid \in 1..MaxTasks : DrainRecv(tid)
    \/ LoopReturn
    \/ \E n \in IteratorNodes : ProducerNext(n)
    \/ LoopNotify
    \/ ProducerNotifyDefault
    \/ \E tid \in 1..MaxTasks : TaskDial(tid)
    \/ Stop
    \/ \E id \in IDs : Expire(id)

Spec == Init /\ [][Next]_vars

Fairness ==
    /\ WF_vars(LaunchCycle)
    /\ WF_vars(StartDial)
    /\ WF_vars(LoopReturn)
    /\ WF_vars(LoopNotify \/ ProducerNotifyDefault)
    /\ SF_vars(LoopClose)
    /\ \A tid \in 1..MaxTasks : WF_vars(TaskDial(tid))
    /\ \A tid \in 1..MaxTasks : SF_vars(LoopDone(tid))
    /\ \A tid \in 1..MaxTasks : WF_vars(DrainRecv(tid))
    /\ \A id \in IDs : WF_vars(Expire(id))

\* The scheduler under a fair Go scheduler: every goroutine that can run
\* does, a select that is entered again and again takes each case that is
\* ready each time, dials end and history entries expire.  Nothing is
\* assumed of the callers, the iterator or stop().
FairSpec == Init /\ [][Next]_vars /\ Fairness

\* ------------------------------------------------------------ the pool alone

\* d.staticPool.add(addr, ...) as the producer (normalPriority) or
\* addToStaticPool (staticPriority) calls it.
PoolAdd(addr, isStatic) ==
    /\ DialQueueLen(staticPool) < MaxPool
    /\ \E now \in Nows :
         /\ staticPool' = add(staticPool, addr, isStatic,
                              IF isStatic THEN staticPriority ELSE normalPriority, now)
         /\ clock' = IF addr \in staticPool.items THEN clock ELSE now
    /\ inserted' = InsertionOrder(inserted, staticPool')
    /\ popped' = NoEntry
    /\ UNCHANGED <<config, dialing, peers, static, dialPeers, history, closeCh, pc,
                   res, drainLeft, launched, itLeft, itClosed, prodPc, conns,
                   tk, mclock, call>>

\* task := d.staticPool.popImpl()
PoolPop ==
    /\ LET p == popImpl(staticPool)
       IN  /\ staticPool' = p.queue
           /\ popped' = p.tt
           /\ inserted' = InsertionOrder(inserted, p.queue)
    /\ UNCHANGED <<config, dialing, peers, static, dialPeers, history, clock,
                   closeCh, pc, res, drainLeft, launched, itLeft, itClosed, prodPc,
                   conns, tk, mclock, call>>

PoolNext ==
    \/ \E addr \in Nodes : \E isStatic \in BOOLEAN : PoolAdd(addr, isStatic)
    \/ PoolPop

\* The pool reads nothing of the configuration: one configuration suffices.
PoolInit == Init /\ config.netRestrict

\* The candidate pool under every sequence of add and popImpl calls.
PoolSpec == PoolInit /\ [][PoolNext]_vars

\* ------------------------------------------------------------- one dial task

\* The tasks followed: built by newDialTask, resolveDelay and lastResolved zero.
TaskInputs ==
    {[dest |-> "b0", flags |-> "staticDialedConn"],
     [dest |-> "b1", flags |-> "staticDialedConn"],
     [dest |-> "b1", flags |-> "dynDialedConn"],
     [dest |-> "a1", flags |-> "dynDialedConn"]}

\* dialScheduler.resolve(t) with d.config.clock.Now() = now at the throttle
\* check and = stamp after Resolve returned; found: the resolver found the
\* node.  [ok, task, queried]: queried tells that resolver.Resolve was called.
resolve(t, now, stamp, found) ==
    IF ~config.resolver
    THEN [ok |-> FALSE, task |-> t, queried |-> FALSE]
    ELSE LET t1 == IF t.resolveDelay = 0
                   THEN [t EXCEPT !.resolveDelay = initialResolveDelay]
                   ELSE t
         IN  IF t1.lastResolved > 0 /\ now - t1.lastResolved < t1.resolveDelay
             THEN [ok |-> FALSE, task |-> t1, queried |-> FALSE]
             ELSE IF ~found
             THEN [ok |-> FALSE, queried |-> TRUE,
                   task |-> [t1 EXCEPT !.lastResolved = stamp,
                                       !.resolveDelay =
                                           IF t1.resolveDelay * 2 > maxResolveDelay
                                           THEN maxResolveDelay
                                           ELSE t1.resolveDelay * 2]]
             ELSE [ok |-> TRUE, queried |-> TRUE,
                   task |-> [t1 EXCEPT !.lastResolved = stamp,
                                       !.resolveDelay = initialResolveDelay,
                                       !.dest = Resolved(t1.dest)]]

\* The delay a call of resolve on t works with.
EffectiveDelay(t) == IF t.resolveDelay = 0 THEN initialResolveDelay ELSE t.resolveDelay

\* Time passing before a call of resolve: none, just short of the delay, the delay.
WaitKinds == {"none", "short", "full"}
Wait(t, kind) ==
    CASE kind = "none" -> 0
      [] kind = "short" -> EffectiveDelay(t) - 1
      [] OTHER -> EffectiveDelay(t)

\* Time resolver.Resolve takes.
Durations == {0, 1}

\* newDialTask(dest, flags) for the task followed.
TkNew(t) ==
    /\ tk = NoTask
    /\ tk' = [NoTask EXCEPT !.pc = "new", !.dest = t.dest, !.flags = t.flags]
    /\ UNCHANGED <<config, dialing, peers, static, dialPeers, staticPool, history,
                   clock, closeCh, pc, res, drainLeft, launched, itLeft, itClosed,
                   prodPc, conns, inserted, popped, mclock, call>>

\* One call d.resolve(tk), made Wait(tk, kind) after the previous step.
ResolveCall(found, kind, dur) ==
    /\ tk.pc = "new"
    /\ tk.calls < MaxResolveCalls
    /\ LET now == mclock + Wait(tk, kind)
           r   == resolve(tk, now, now + dur, found)
       IN  /\ tk' = [r.task EXCEPT !.calls = @ + 1,
                                   !.attempted = @ \/ r.queried]
           /\ mclock' = IF r.queried THEN now + dur ELSE now
    /\ UNCHANGED <<config, dialing, peers, static, dialPeers, staticPool, history,
                   clock, closeCh, pc, res, drainLeft, launched, itLeft, itClosed,
                   prodPc, conns, inserted, popped, call>>

ResolveNext ==
    \/ \E t \in TaskInputs : TkNew(t)
    \/ \E found \in BOOLEAN : \E kind \in WaitKinds : \E dur \in Durations :
           ResolveCall(found, kind, dur)

\* Every sequence of resolve calls on one task.
ResolveSpec == Init /\ [][ResolveNext]_vars

\* The outcomes of d.dial(task): nil, a *dialError from the dialer, or the
\* error of the setup callback.
DialResults == {"nil", "dialError", "setupError"}

\* startDial up to the point where the goroutine starts: the first resolve of
\* a static task without IP; when it fails, startDial returns and no goroutine
\* runs the task.
TkStartDial(found, dur) ==
    /\ tk.pc = "new"
    /\ IF needResolve(tk)
       THEN LET r == resolve(tk, mclock, mclock + dur, found)
            IN  /\ tk' = [r.task EXCEPT !.pc = IF r.ok THEN "dial" ELSE "dropped",
                                        !.calls = @ + 1,
                                        !.attempted = @ \/ r.queried]
                /\ mclock' = IF r.queried THEN mclock + dur ELSE mclock
       ELSE /\ tk' = [tk EXCEPT !.pc = "dial"]
            /\ UNCHANGED mclock
    /\ UNCHANGED <<config, dialing, peers, static, dialPeers, staticPool, history,
                   clock, closeCh, pc, res, drainLeft, launched, itLeft, itClosed,
                   prodPc, conns, inserted, popped, call>>

\* The first d.dial(task) with a retry after every failure, whatever the
\* error and the flag.
TkDialRetriesAnyFailure(err) ==
    /\ tk.pc = "dial"
    /\ tk' = [tk EXCEPT !.dials = @ + 1,
                        !.err = err,
                        !.pc = IF err # "nil" THEN "reresolve" ELSE "send"]
    /\ UNCHANGED <<config, dialing, peers, static, dialPeers, staticPool, history,
                   clock, closeCh, pc, res, drainLeft, launched, itLeft, itClosed,
                   prodPc, conns, inserted, popped, mclock, call>>

\* The first d.dial(task) of the dial closure and the test on its error.
TkDial(err) ==
    /\ tk.pc = "dial"
    /\ tk' = [tk EXCEPT !.dials = @ + 1,
                        !.err = err,
                        !.pc = IF err = "dialError" /\ tk.flags = "staticDialedConn"
                               THEN "reresolve"
                               ELSE "send"]
    /\ UNCHANGED <<config, dialing, peers, static, dialPeers, staticPool, history,
                   clock, closeCh, pc, res, drainLeft, launched, itLeft, itClosed,
                   prodPc, conns, inserted, popped, mclock, call>>

\* d.resolve(task) after the failed dial, Wait(tk, kind) after the first resolve.
TkReResolve(found, kind, dur) ==
    /\ tk.pc = "reresolve"
    /\ LET now == mclock + Wait(tk, kind)
           r   == resolve(tk, now, now + dur, found)
       IN  /\ tk' = [r.task EXCEPT !.pc = IF r.ok THEN "dial2" ELSE "send",
                                   !.calls = @ + 1,
                                   !.attempted = @ \/ r.queried,
                                   !.reresolves = @ + 1,
                                   !.reok = r.ok]
           /\ mclock' = IF r.queried THEN now + dur ELSE now
    /\ UNCHANGED <<config, dialing, peers, static, dialPeers, staticPool, history,
                   clock, closeCh, pc, res, drainLeft, launched, itLeft, itClosed,
                   prodPc, conns, inserted, popped, call>>

\* The second d.dial(task); its error is dropped.
TkDial2(err) ==
    /\ tk.pc = "dial2"
    /\ tk' = [tk EXCEPT !.dials = @ + 1, !.pc = "send"]
    /\ UNCHANGED <<config, dialing, peers, static, dialPeers, staticPool, history,
                   clock, closeCh, pc, res, drainLeft, launched, itLeft, itClosed,
                   prodPc, conns, inserted, popped, mclock, call>>

\* d.doneCh <- task
TkSend ==
    /\ tk.pc = "send"
    /\ tk' = [tk EXCEPT !.pc = "done"]
    /\ UNCHANGED <<config, dialing, peers, static, dialPeers, staticPool, history,
                   clock, closeCh, pc, res, drainLeft, launched, itLeft, itClosed,
                   prodPc, conns, inserted, popped, mclock, call>>

TaskNext ==
    \/ \E t \in TaskInputs : TkNew(t)
    \/ \E found \in BOOLEAN : \E dur \in Durations : TkStartDial(found, dur)
    \/ \E err \in DialResults : TkDial(err)
    \/ \E found \in BOOLEAN : \E kind \in WaitKinds : \E dur \in Durations :
           TkReResolve(found, kind, dur)
    \/ \E err \in DialResults : TkDial2(err)
    \/ TkSend

\* One dial task from newDialTask to its send on doneCh.
TaskSpec == Init /\ [][TaskNext]_vars

\* ------------------------------------------------------------- one caller

\* The variables a caller's own steps leave alone.
CallerVarsUnchanged ==
    UNCHANGED <<config, dialing, peers, static, dialPeers, staticPool, history,
                clock, closeCh, pc, res, drainLeft, launched, itLeft, itClosed,
                prodPc, conns, inserted, popped, tk, mclock>>

\* A goroutine enters the select of op with argument arg; before: closeCh was
\* still open then; late: the loop had returned when closeCh released the call.
CallBegin(op, arg) ==
    /\ call.pc # "blocked"
    /\ call' = [pc |-> "blocked", op |-> op, arg |-> arg, before |-> ~closeCh,
                late |-> FALSE]
    /\ CallerVarsUnchanged

\* addStatic(n) is called.
CallAddStatic(n) == CallBegin("addStatic", n)

\* removeStatic(n) is called.
CallRemoveStatic(n) == CallBegin("removeStatic", n)

\* peerAdded(c) is called, for a connection to a node that is not connected.
CallPeerAdded(c) ==
    /\ \A x \in conns : ID(x.node) # ID(c.node)
    /\ CallBegin("peerAdded", c)

\* peerRemoved(c) is called, for a connection reported before.
CallPeerRemoved(c) ==
    /\ c \in conns
    /\ CallBegin("peerRemoved", c)

\* The caller's value is on op's channel.
Sending(op, arg) == call.pc = "blocked" /\ call.op = op /\ call.arg = arg

\* case d.addStaticCh <- n: the loop receives it and the call returns.
AcceptAddStatic(n) ==
    /\ Sending("addStatic", n)
    /\ RecvAddStatic(n)
    /\ call' = [call EXCEPT !.pc = "accepted"]

\* case d.remStaticCh <- n
AcceptRemoveStatic(n) ==
    /\ Sending("removeStatic", n)
    /\ RecvRemStatic(n)
    /\ call' = [call EXCEPT !.pc = "accepted"]

\* case d.addPeerCh <- c
AcceptPeerAdded(c) ==
    /\ Sending("peerAdded", c)
    /\ RecvAddPeer(c)
    /\ call' = [call EXCEPT !.pc = "accepted"]

\* case d.remPeerCh <- c
AcceptPeerRemoved(c) ==
    /\ Sending("peerRemoved", c)
    /\ RecvRemPeer(c)
    /\ call' = [call EXCEPT !.pc = "accepted"]

\* The exposed operations as plain channel sends, without "case <-d.closeCh".
CallAbortMissing ==
    /\ FALSE
    /\ UNCHANGED vars

\* case <-d.closeCh: the call returns without its value being received.
CallAbort ==
    /\ call.pc = "blocked"
    /\ closeCh
    /\ call' = [call EXCEPT !.pc = "closed", !.late = (pc = "returned")]
    /\ CallerVarsUnchanged

CallerNext ==
    \/ LaunchCycle
    \/ StartDial
    \/ \E tid \in 1..MaxTasks : LoopDone(tid)
    \/ LoopClose
    \/ \E tid \in 1..MaxTasks : DrainRecv(tid)
    \/ LoopReturn
    \/ \E tid \in 1..MaxTasks : TaskDial(tid)
    \/ Stop
    \/ \E id \in IDs : Expire(id)
    \/ \E n \in StaticInputs : CallAddStatic(n)
    \/ \E n \in StaticInputs : CallRemoveStatic(n)
    \/ \E c \in Conns : CallPeerAdded(c)
    \/ \E c \in Conns : CallPeerRemoved(c)
    \/ \E n \in StaticInputs : AcceptAddStatic(n)
    \/ \E n \in StaticInputs : AcceptRemoveStatic(n)
    \/ \E c \in Conns : AcceptPeerAdded(c)
    \/ \E c \in Conns : AcceptPeerRemoved(c)
    \/ CallAbort

\* The scheduler is started with a resolver and room for two dials.
CallerInit == Init /\ config.maxActiveDials = 2

\* The loop, the dial tasks and one goroutine at a time calling the exposed
\* operations.  The calling goroutine is scheduled: a select with a ready
\* case returns.  Nothing is assumed of the loop or of stop().
CallerSpec == CallerInit /\ [][CallerNext]_vars /\ WF_vars(CallAbort)

\* ------------------------------------------------- the producer's two loops

\* The variables a step of the producer between its two "for" leaves alone.
ProducerVarsUnchanged ==
    UNCHANGED <<config, dialing, peers, static, dialPeers, staticPool, history,
                clock, closeCh, pc, res, drainLeft, launched, itLeft, itClosed,
                conns, inserted, popped, tk, mclock, call>>

\* it.Next() returned false, the iterator being exhausted or closed: the
\* inner "for it.Next()" ends and control is at the outer "for".
ProducerNextFalse ==
    /\ prodPc = "next"
    /\ itClosed \/ itLeft = 0
    /\ prodPc' = "again"
    /\ ProducerVarsUnchanged

\* The outer "for" goes round: the inner loop starts again with it.Next().
ProducerAgain ==
    /\ prodPc = "again"
    /\ prodPc' = "next"
    /\ ProducerVarsUnchanged

ProducerLoopNext ==
    \/ Next
    \/ ProducerNext(NoNode)
    \/ ProducerNextFalse
    \/ ProducerAgain

\* The scheduler is started without a resolver.
ProducerInit == Init /\ ~config.resolver

\* The scheduler with the producer followed past the end of its iterator.
ProducerSpec == ProducerInit /\ [][ProducerLoopNext]_vars

\* ------------------------------------------------------------------ claims

\* The dial tasks launched and not yet reported on doneCh.
InFlight == {tid \in 1..Len(launched) : launched[tid].pc # "delivered"}

\* The model's launch budget stops the loop at the top of a cycle.
BudgetExhausted ==
    pc = "launch" /\ Len(launched) + Len(startStaticDials.res) > MaxTasks

\* C1: every dial task startDial launched (recorded in history, marked in
\* dialing) is eventually delivered on doneCh, whatever its outcome.
C1_LaunchedTaskIsDelivered ==
    \A tid \in 1..MaxTasks :
        (tid <= Len(launched))
            ~> ((tid <= Len(launched) /\ launched[tid].pc = "delivered")
                \/ BudgetExhausted)

\* C2: once stop() closed closeCh, and with every dial ending, the loop
\* goroutine eventually returns: the drain never blocks forever.
C2_LoopReturnsAfterStop ==
    closeCh ~> (pc = "returned" \/ BudgetExhausted)

\* C3: when the loop has returned, every dial task ever launched has delivered
\* its completion; no task goroutine is running or blocked on doneCh.
C3_NoTaskOutlivesLoop ==
    pc = "returned" => InFlight = {}

\* C4: at most one dial task is in flight per node identifier.
C4_OneInFlightPerID ==
    \A t1, t2 \in InFlight :
        t1 # t2 => ID(launched[t1].dest) # ID(launched[t2].dest)

\* C5: the number of dial tasks in flight never exceeds maxActiveDials.
C5_InFlightAtMostMaxActiveDials ==
    Cardinality(InFlight) <= config.maxActiveDials

\* C6: no dial is launched for an identifier that is in the dial history.
C6_NoDialWhileInHistory ==
    [][StartDial => ~HistoryContainsID(history, ID(Head(res).dest))]_vars

\* C7: a node that stays static and unconnected is dialed again after a dial
\* to it ended, without another addStatic or peerDisconnected: from a state
\* where a dial to static B is about to report, the loop eventually admits B
\* for a new dial, unless B connected, was removed from the static set, the
\* scheduler is stopped or there is no free dial slot.
C7_StaticNodeIsRedialed ==
    (/\ \E tid \in InFlight :
            launched[tid].pc = "send" /\ ID(launched[tid].dest) = "B"
     /\ "B" \in static
     /\ "B" \notin peers)
        ~> (\/ \E i \in 1..Len(res) : ID(res[i].dest) = "B"
            \/ "B" \in peers
            \/ "B" \notin static
            \/ closeCh
            \/ freeDialSlots <= 0
            \/ BudgetExhausted)

\* C8: a cycle launches at most max(0, min(maxActiveDials, (maxDialPeers -
\* dialPeers) * 2) - |dialing|) dials, computed from the state at the start of
\* the cycle; when that is zero no dial is launched and no pool entry popped.
C8_CycleLaunchesAtMostFreeSlots ==
    [][LaunchCycle =>
        LET free == Max(0, Min(config.maxActiveDials,
                               (config.maxDialPeers - dialPeers) * 2)
                           - Cardinality(dialing))
        IN  /\ Len(res') <= free
            /\ free = 0 => (res' = <<>> /\ staticPool' = staticPool)]_vars

\* A cycle has just admitted two candidates, as many as there were free
\* slots, none of them started yet, and the pool holds a further candidate.
C8_Witness ==
    /\ pc = "start"
    /\ Len(res) = 2
    /\ freeDialSlots = 2
    /\ DialQueueLen(staticPool) > 0

\* The six rejections of checkDial in the order of the claim.
Rejections(n) ==
    <<[err |-> "errSelf", holds |-> ID(n) = SelfID],
      [err |-> "errNoPort", holds |-> HasIP(n) /\ TCP(n) = 0],
      [err |-> "errAlreadyDialing", holds |-> ID(n) \in dialing],
      [err |-> "errAlreadyConnected", holds |-> ID(n) \in peers],
      [err |-> "errNetRestrict", holds |-> config.netRestrict /\ ~NetlistContains(n)],
      [err |-> "errRecentlyDialed", holds |-> ID(n) \in history]>>

\* C9: checkDial returns the rejection of the first of the six conditions that
\* holds, nil exactly when none does, and never errNoPort for a node without IP.
C9_CheckDialFirstFailing ==
    \A n \in Nodes :
        LET r   == Rejections(n)
            bad == {i \in 1..6 : r[i].holds}
            err == checkDial(n, dialing, peers, history)
        IN  /\ bad = {} <=> err = "nil"
            /\ bad # {} => \E i \in bad : /\ err = r[i].err
                                          /\ \A j \in bad : i <= j
            /\ ~HasIP(n) => err # "errNoPort"

\* A is dialing, connected and in the history at once, under a netrestrict
\* list, and the loop has run checkDial in the handler it just left.
C9_Witness ==
    /\ config.netRestrict
    /\ "A" \in dialing
    /\ "A" \in peers
    /\ "A" \in history
    /\ "B" \in static
    /\ pc = "launch"

\* The entries of the pool.
Entries(q) == {q.heap[i] : i \in 1..Len(q.heap)}

\* x is before y for the key (priority ascending, insertTime ascending).
KeyBefore(x, y) ==
    \/ x.priority < y.priority
    \/ x.priority = y.priority /\ x.insertTime < y.insertTime

\* popImpl returns nil exactly for the empty pool, and otherwise removes and
\* returns an entry no other entry is before for the key.
PopsMinimalKey ==
    LET p == popImpl(staticPool)
    IN  /\ p.tt = NoEntry <=> Entries(staticPool) = {}
        /\ Entries(staticPool) # {} =>
             /\ p.tt \in Entries(staticPool)
             /\ Entries(p.queue) = Entries(staticPool) \ {p.tt}
             /\ p.queue.items = {e.addr : e \in Entries(p.queue)}
             /\ Len(p.queue.heap) = Len(staticPool.heap) - 1
             /\ \A e \in Entries(staticPool) : ~KeyBefore(e, p.tt)

\* The position of reference a in the insertion order.
InsertedAt(a) == CHOOSE i \in 1..Len(inserted) : inserted[i] = a

\* C10: popImpl removes and returns the entry minimal for the key (priority
\* ascending, insertTime ascending): a static entry before any normal one,
\* entries of equal priority in the order add inserted them, and nil exactly
\* for the empty pool.
C10_PopImplInsertionOrder ==
    /\ PopsMinimalKey
    /\ LET p == popImpl(staticPool)
       IN  \A e \in Entries(staticPool) :
               e.priority = p.tt.priority =>
                   InsertedAt(p.tt.addr) <= InsertedAt(e.addr)

\* c.is(dynDialedConn) || c.is(staticDialedConn)
IsDialed(c) == c.flag \in {"dynDialedConn", "staticDialedConn"}

\* C11: addStatic(n) for an identifier already in the static set changes
\* neither the static set nor the pool, the identifier stays registered, and
\* the pool never holds two entries for one node reference.
C11_SecondAddStaticIsNoOp ==
    /\ [](/\ \A i, j \in 1..Len(staticPool.heap) :
                staticPool.heap[i].addr = staticPool.heap[j].addr => i = j
          /\ staticPool.items = {e.addr : e \in Entries(staticPool)})
    /\ [][\A n \in StaticInputs :
            (LoopAddStatic(n) /\ ID(n) \in static) =>
                (static' = static /\ staticPool' = staticPool)]_vars

\* B is registered, its entry waits in the pool because no dial slot is free,
\* and the loop is in its select, where a further addStatic(b0) arrives.
C11_Witness ==
    /\ pc = "select"
    /\ "B" \in static
    /\ \E e \in Entries(staticPool) : e.addr = "b0" /\ e.isStatic
    /\ freeDialSlots <= 0

\* C12: the peerDisconnected handler removes the identifier from peers; if the
\* identifier is static and checkDial admits the node then, the pool holds a
\* static-priority entry for it afterwards, and otherwise the pool is unchanged.
C12_RemPeerReinsertsStatic ==
    [][\A c \in Conns :
          LoopRemPeer(c) =>
              /\ ID(c.node) \notin peers'
              /\ IF /\ ID(c.node) \in static
                    /\ checkDial(c.node, dialing, peers', history) = "nil"
                 THEN \E e \in Entries(staticPool') :
                          ID(e.addr) = ID(c.node) /\ e.priority = staticPriority
                 ELSE staticPool' = staticPool]_vars

\* C13: dialPeers equals the number of connected dialed connections and is
\* never negative; it changes only in the peer handlers, by +1 on
\* peerConnected and -1 on peerDisconnected of a static-dialed or
\* dynamic-dialed connection, and an inbound connection leaves it unchanged.
C13_DialPeersCountsDialedConns ==
    /\ [](/\ dialPeers = Cardinality({c \in conns : IsDialed(c)})
          /\ dialPeers >= 0)
    /\ [][/\ (dialPeers' # dialPeers) =>
               (\E c \in Conns :
                   /\ IsDialed(c)
                   /\ \/ (LoopAddPeer(c) /\ dialPeers' = dialPeers + 1)
                      \/ (LoopRemPeer(c) /\ dialPeers' = dialPeers - 1))
           /\ \A c \in Conns :
                   (LoopAddPeer(c) \/ LoopRemPeer(c)) =>
                       (dialPeers' = dialPeers + (IF ~IsDialed(c) THEN 0
                                                 ELSE IF c \in conns THEN 0 - 1 ELSE 1))]_vars

\* An inbound and a dialed connection are both held: two peers, dialPeers 1.
C13_Witness ==
    /\ dialPeers = 1
    /\ \E c \in conns : ~IsDialed(c)
    /\ \E c \in conns : IsDialed(c)
    /\ pc = "launch"

\* C17: every task a launch cycle constructs carries the static flag exactly
\* when its identifier is in the static set at that moment, and the dynamic
\* flag otherwise.
C17_FlagFollowsStaticSet ==
    [][LaunchCycle =>
          \A i \in 1..Len(res') :
              /\ res'[i].flags \in {"staticDialedConn", "dynDialedConn"}
              /\ res'[i].flags = "staticDialedConn" <=> ID(res'[i].dest) \in static]_vars

\* C18: whenever the loop is about to wait in its select, dialing and peers
\* have no identifier in common.
C18_DialingAndPeersDisjoint ==
    pc = "select" => dialing \cap peers = {}

\* C18 as amended: no dial is launched to a connected identifier, so an
\* identifier is in dialing and in peers at once only when the peer was
\* reported connected after the launch, while a task for it has not yet
\* reported completion.
C18_NoLaunchToConnectedPeer ==
    /\ [][StartDial => ID(Head(res).dest) \notin peers]_vars
    /\ [](pc = "select" =>
            \A id \in dialing \cap peers :
                \E tid \in InFlight : ID(launched[tid].dest) = id)

\* A peer was reported connected while the dial to it is still in flight,
\* and the loop waits in its select.
C18_Witness ==
    /\ pc = "select"
    /\ \E tid \in InFlight :
           /\ launched[tid].pc \in {"dial", "send"}
           /\ ID(launched[tid].dest) \in dialing \cap peers

\* C19: the loop is never blocked in its select, with no notification of the
\* producer pending, while the pool holds a candidate of the producer that
\* checkDial admits and a dial slot is free.
C19_NoLostNotification ==
    ~(/\ pc = "select"
      /\ prodPc # "notify"
      /\ freeDialSlots > 0
      /\ \E e \in Entries(staticPool) :
             ~e.isStatic /\ checkDial(e.addr, dialing, peers, history) = "nil")

\* C20: the loop goroutine never queries the resolver: no startDial step of
\* the loop runs resolve with a resolver configured; resolution belongs to the
\* task's goroutine.
C20_LoopNeverResolves ==
    [][StartDial => ~(needResolve(Head(res)) /\ config.resolver)]_vars

\* C15: with a resolver configured, a call of resolve made less than
\* resolveDelay after the previous attempt returns false without querying the
\* resolver and without changing resolveDelay or lastResolved; any other call
\* queries; a failed attempt doubles resolveDelay, starting from
\* initialResolveDelay and capped at maxResolveDelay, and a successful one
\* resets it to initialResolveDelay.
C15_ResolveBackoff ==
    (config.resolver /\ tk.pc = "new") =>
        /\ tk.calls > 0 => tk.resolveDelay \in initialResolveDelay..maxResolveDelay
        /\ \A found \in BOOLEAN : \A kind \in WaitKinds : \A dur \in Durations :
               LET now   == mclock + Wait(tk, kind)
                   d     == EffectiveDelay(tk)
                   r     == resolve(tk, now, now + dur, found)
                   early == tk.attempted /\ now - tk.lastResolved < d
               IN  /\ early => /\ ~r.ok
                               /\ ~r.queried
                               /\ r.task.resolveDelay = d
                               /\ r.task.lastResolved = tk.lastResolved
                   /\ ~early => r.queried
                   /\ (r.queried /\ ~found) =>
                          /\ ~r.ok
                          /\ r.task.resolveDelay = Min(2 * d, maxResolveDelay)
                   /\ (r.queried /\ found) =>
                          /\ r.ok
                          /\ r.task.resolveDelay = initialResolveDelay

\* C14: one dial task invokes the dialer at most twice, and at most once
\* when it is dynamic; it dials a second time only when it is static, the
\* first dial failed with a dialError and the one re-resolution returned true;
\* a setup failure or a dynamic task causes no re-resolution.
C14_DialAttemptsPerTask ==
    /\ tk.dials <= 2
    /\ tk.reresolves <= 1
    /\ tk.dials = 2 => /\ tk.flags = "staticDialedConn"
                       /\ tk.err = "dialError"
                       /\ tk.reresolves = 1
                       /\ tk.reok
    /\ tk.flags = "dynDialedConn" => (tk.dials <= 1 /\ tk.reresolves = 0)
    /\ tk.err \in {"nil", "setupError"} => (tk.dials <= 1 /\ tk.reresolves = 0)
    /\ (tk.pc \in {"send", "done"} /\ tk.flags = "staticDialedConn"
            /\ tk.err = "dialError") => tk.reresolves = 1

C14_Witness ==
    /\ tk.pc = "done"
    /\ tk.flags = "staticDialedConn"
    /\ tk.err = "dialError"
    /\ tk.dials = 2

\* C16: once stop() has closed closeCh, a call of addStatic, removeStatic,
\* peerAdded or peerRemoved that waits in its select returns, whether it began
\* before stop() or after, and whether or not the loop is still running; and
\* a call returns only because the loop received its value or closeCh is closed.
C16_CallsReturnAfterStop ==
    /\ (closeCh /\ call.pc = "blocked") ~> (call.pc # "blocked")
    /\ [][(call.pc = "blocked" /\ call'.pc # "blocked") =>
              \/ call'.pc = "closed" /\ closeCh
              \/ call'.pc = "accepted" /\ pc = "select"]_vars

\* A call that began before stop() and was still waiting when the loop had
\* returned was released by closeCh.
C16_Witness ==
    /\ call.pc = "closed"
    /\ call.before
    /\ call.late

\* C21: once closeCh is closed the loop launches no new dial task: a launch
\* cycle that runs after stop() returns no task to start, whatever is pending
\* on the other channels of the select.
C21_NoLaunchAfterStop ==
    [][(closeCh /\ LaunchCycle) => res' = <<>>]_vars

\* C22: once it.Next() has returned false, the iterator being exhausted or
\* closed, the producer is done: it does not go back to calling it.Next().
C22_ProducerStopsAfterNextFalse ==
    [][prodPc = "again" => prodPc' \in {"again", "returned"}]_vars

====
